---- MODULE Spec2Model ----
(***************************************************************************)
(* Model of src/setup/config-generator.py: the ConfigGenerator class that  *)
(* fills in secrets of a loaded configuration tree and renders four        *)
(* deployment artifacts from it, and the main() entry point around it.     *)
(*                                                                         *)
(* Strings that the code inspects (passwords, salts) are sequences of      *)
(* one-character strings.  Dictionaries are functions whose DOMAIN is the  *)
(* set of keys present; a missing key is a key outside the DOMAIN.         *)
(* A rendered artifact is a record of the values the template             *)
(* interpolates, in place of the text.                                     *)
(***************************************************************************)
EXTENDS Integers, Sequences, FiniteSets, TLC

VARIABLES
  config,    \* self.config, the configuration tree
  pc,        \* "run": inside generate_all_configs; "raised": an exception is
             \* propagating; "exit0", "exit1": the process has ended;
             \* "api": _substitute_auto_values is called directly
  step,      \* index of the next statement of generate_all_configs
  calls,     \* number of completed calls of _substitute_auto_values
  configs,   \* the rendered artifacts, by file name
  disk,      \* the output directory
  raisedIn   \* the statement that raised

vars == <<config, pc, step, calls, configs, disk, raisedIn>>

(***************************************************************************)
(* Bounds of the model                                                     *)
(***************************************************************************)
\* number of distinct outputs of the random source that are explored
NumSeeds == 3
\* number of direct calls of _substitute_auto_values in SpecSubst
MaxCalls == 2
\* longest plugins.install list explored
MaxPlugins == 2
\* longest automation.post_install list explored
MaxActions == 3

(***************************************************************************)
(* Characters and strings                                                  *)
(***************************************************************************)
ascii_lowercase == <<"a", "b", "c", "d", "e", "f", "g", "h", "i", "j", "k", "l", "m", "n", "o", "p", "q", "r", "s", "t", "u", "v", "w", "x", "y", "z">>

ascii_uppercase == <<"A", "B", "C", "D", "E", "F", "G", "H", "I", "J", "K", "L", "M", "N", "O", "P", "Q", "R", "S", "T", "U", "V", "W", "X", "Y", "Z">>

digits == <<"0", "1", "2", "3", "4", "5", "6", "7", "8", "9">>

PasswordSymbols == <<"!", "@", "#", "$", "%", "^", "&", "*">>

SaltPunctuation == <<"(", ")", "-", "_", "[", "]", "{", "}", "<", ">", "~", "backtick", "+", "=", ",", ".", ";", ":", "/", "?", "|">>

\* "backtick" stands for the grave accent character, which cannot be written
\* in a string of this notation
\* alphabet of _generate_random_password
PasswordAlphabet == ascii_lowercase \o ascii_uppercase \o digits \o PasswordSymbols

\* alphabet of _generate_wp_salt
SaltAlphabet == PasswordAlphabet \o SaltPunctuation

PasswordLength == 16

SaltLength == 64

Range(s) == {s[i] : i \in DOMAIN s}

\* str.lower() on one character
LowerChar(c) ==
  IF c \in Range(ascii_uppercase)
    THEN ascii_lowercase[CHOOSE i \in DOMAIN ascii_uppercase : ascii_uppercase[i] = c]
    ELSE c

\* str.lower()
Lower(s) == [i \in DOMAIN s |-> LowerChar(s[i])]

\* the Python test  sub in s
Contains(s, sub) ==
  \E i \in 1..(Len(s) - Len(sub) + 1) : SubSeq(s, i, i + Len(sub) - 1) = sub

AutoMarker == <<"a", "u", "t", "o">>

\* the test: "auto" in value.lower()
HasAuto(s) == Contains(Lower(s), AutoMarker)

(***************************************************************************)
(* The random source.  A seed fixes the stream of numbers that             *)
(* secrets.choice consumes; the stream repeats a block of eight numbers.   *)
(***************************************************************************)
SeedBlock(n) ==
  CASE n = 1 -> <<33, 62, 0, 20, 19, 14, 53, 10>>
    [] n = 2 -> <<10, 53, 62, 33, 7, 69, 25, 51>>
    [] n = 3 -> <<53, 26, 46, 45, 40, 10, 62, 33>>
    [] OTHER -> <<n, 2 * n + 1, 3 * n + 5, 7 * n, n + 11, 5 * n + 2, n * n, 13 * n>>

Seeds == 1..NumSeeds

\* the k-th number (k >= 1) of the stream of a seed
RandomAt(seed, k) == SeedBlock(seed)[((k - 1) % Len(SeedBlock(seed))) + 1]

\* secrets.choice(alphabet) on the k-th number of the stream
Choice(alphabet, seed, k) == alphabet[(RandomAt(seed, k) % Len(alphabet)) + 1]

\* ''.join(secrets.choice(alphabet) for _ in range(length)), the stream
\* being at position offset
_generate_random_password(seed, offset) ==
  [i \in 1..PasswordLength |-> Choice(PasswordAlphabet, seed, offset + i)]

_generate_wp_salt(seed, offset) ==
  [i \in 1..SaltLength |-> Choice(SaltAlphabet, seed, offset + i)]

(***************************************************************************)
(* Dictionaries                                                            *)
(***************************************************************************)
RECURSIVE HasPath(_, _)
\* whether d[p1][p2]... resolves without a KeyError
HasPath(d, p) ==
  IF p = <<>> THEN TRUE
  ELSE Head(p) \in DOMAIN d /\ HasPath(d[Head(p)], Tail(p))

RECURSIVE GetPath(_, _)
GetPath(d, p) == IF p = <<>> THEN d ELSE GetPath(d[Head(p)], Tail(p))

RECURSIVE SetPath(_, _, _)
\* d[p1][p2]... = v  (the last key may be new)
SetPath(d, p, v) ==
  IF Len(p) = 1
    THEN [k \in DOMAIN d \cup {p[1]} |-> IF k = p[1] THEN v ELSE d[k]]
    ELSE [d EXCEPT ![Head(p)] = SetPath(d[Head(p)], Tail(p), v)]

RECURSIVE RemovePath(_, _)
\* the tree without the key p
RemovePath(d, p) ==
  IF Len(p) = 1
    THEN [k \in DOMAIN d \ {p[1]} |-> d[k]]
    ELSE [d EXCEPT ![Head(p)] = RemovePath(d[Head(p)], Tail(p))]

\* dict.get(key, default)
Get(d, key, default) == IF key \in DOMAIN d THEN d[key] ELSE default

RECURSIVE FirstMissing(_, _)
\* the first path of the list that raises KeyError, <<>> when none does
FirstMissing(d, paths) ==
  IF paths = <<>> THEN <<>>
  ELSE IF ~HasPath(d, Head(paths)) THEN Head(paths)
  ELSE FirstMissing(d, Tail(paths))

(***************************************************************************)
(* Secret substitution                                                     *)
(***************************************************************************)
salt_keys == <<"auth_key", "secure_auth_key", "logged_in_key", "nonce_key", "auth_salt", "secure_auth_salt", "logged_in_salt", "nonce_salt">>

SecurityPath == <<"wordpress", "security">>

RootPasswordPath == <<"database", "root_user", "password">>

WpUserPasswordPath == <<"database", "wordpress_user", "password">>

AdminPasswordPath == <<"wordpress", "admin_user", "password">>

password_paths == <<RootPasswordPath, WpUserPasswordPath, AdminPasswordPath>>

\* the truth value of security.get(key)
SaltTruthy(security, key) == key \in DOMAIN security /\ security[key] # <<>>

RECURSIVE SubstituteSalts(_, _, _, _)
\* the loop over salt_keys from index i on; r = [tree, offset]
SubstituteSalts(r, i, seed, security) ==
  IF i > Len(salt_keys) THEN r
  ELSE IF ~SaltTruthy(security, salt_keys[i])
    THEN SubstituteSalts(
           [tree |-> SetPath(r.tree, SecurityPath \o <<salt_keys[i]>>,
                             _generate_wp_salt(seed, r.offset)),
            offset |-> r.offset + SaltLength],
           i + 1, seed, security)
    ELSE SubstituteSalts(r, i + 1, seed, security)

RECURSIVE SubstitutePasswords(_, _, _)
\* the three password statements from index i on; r = [tree, offset, error]
SubstitutePasswords(r, i, seed) ==
  IF i > Len(password_paths) THEN r
  ELSE IF ~HasPath(r.tree, password_paths[i])
    THEN [r EXCEPT !.error = password_paths[i]]
  ELSE IF HasAuto(GetPath(r.tree, password_paths[i]))
    THEN SubstitutePasswords(
           [r EXCEPT !.tree = SetPath(r.tree, password_paths[i],
                                      _generate_random_password(seed, r.offset)),
                     !.offset = r.offset + PasswordLength],
           i + 1, seed)
    ELSE SubstitutePasswords(r, i + 1, seed)

\* _substitute_auto_values on tree with the random source at seed:
\* [tree |-> the tree afterwards, error |-> the key that raised, <<>> if none]
_substitute_auto_values(tree, seed) ==
  IF ~HasPath(tree, SecurityPath)
    THEN [tree |-> tree, offset |-> 0, error |-> SecurityPath]
    ELSE LET salted == SubstituteSalts([tree |-> tree, offset |-> 0], 1, seed,
                                       GetPath(tree, SecurityPath))
         IN  SubstitutePasswords(
               [tree |-> salted.tree, offset |-> salted.offset, error |-> <<>>],
               1, seed)

(***************************************************************************)
(* The configuration tree (the result of yaml.safe_load)                   *)
(***************************************************************************)
GoodPassword == <<"C", "o", "r", "r", "e", "c", "t", "H", "o", "r", "s", "e", "1", "!">>

GoodSalt == [i \in 1..SaltLength |-> "x"]

ShortSalt == <<"s", "h", "o", "r", "t">>

EmptyString == <<>>

EmptyDict == <<>>

BaseSecurity == [k \in Range(salt_keys) |-> GoodSalt]

BaseUser ==
  [username |-> "editor", email |-> "editor@example.test",
   password |-> "editor-pw", role |-> "editor"]

BasePost ==
  [type |-> "post", title |-> "Hello", content |-> "body", status |-> "publish"]

\* a complete tree: every key that some generator reads is present
BaseTree ==
  [database |->
     [name |-> "wordpress_db", version |-> "8.0", charset |-> "utf8mb4",
      collation |-> "utf8mb4_unicode_ci",
      root_user |-> [username |-> "root", password |-> GoodPassword],
      wordpress_user |-> [username |-> "wordpress", password |-> GoodPassword],
      test_user |-> [username |-> "tester", password |-> "tester-pw"],
      performance |->
        [max_allowed_packet |-> "64M", innodb_buffer_pool_size |-> "256M",
         max_connections |-> 100, query_cache_size |-> 0]],
   wordpress |->
     [version |-> "latest",
      config |->
        [debug |-> TRUE, debug_log |-> TRUE, debug_display |-> FALSE,
         script_debug |-> FALSE, wp_memory_limit |-> "256M",
         fs_method |-> "direct", force_ssl_admin |-> FALSE],
      security |-> BaseSecurity,
      admin_user |->
        [username |-> "admin", password |-> GoodPassword,
         email |-> "admin@example.test"],
      site |-> [title |-> "Site", url |-> "http://localhost", language |-> "en_US"],
      additional_users |-> <<BaseUser>>,
      content |-> [sample_posts |-> <<BasePost>>]],
   infrastructure |->
     [container_engine |-> "docker", install_path |-> "/opt/site",
      ports |->
        [http |-> 8080, https |-> 8443, mysql |-> 3307,
         phpmyadmin |-> 8081, redis |-> 6379]],
   ssl |-> [enabled |-> FALSE],
   services |->
     [phpmyadmin |-> [enabled |-> TRUE, upload_limit |-> "128M"],
      redis |-> [enabled |-> FALSE, version |-> "7", max_memory |-> "64mb"]],
   networking |->
     [custom_domain |-> "site.test", container_network |-> "site-net",
      network_driver |-> "bridge"],
   plugins |->
     [webp_migrator |-> [dev_mode |-> TRUE, log_level |-> "debug"],
      install |-> <<[source |-> "local", slug |-> "webp-safe-migrator"]>>],
   automation |->
     [max_wait_time |-> 60, wait_for_services |-> TRUE,
      auto_install_wordpress |-> TRUE, auto_activate_plugins |-> TRUE,
      auto_create_content |-> TRUE, post_install |-> <<"flush_rewrite_rules">>],
   php |->
     [version |-> "8.2",
      settings |->
        [memory_limit |-> "256M", max_execution_time |-> 300,
         upload_max_filesize |-> "64M", post_max_size |-> "64M"]],
   webserver |-> [type |-> "apache"]]

(***************************************************************************)
(* Results of a generator                                                  *)
(***************************************************************************)
NotRendered == [status |-> "none"]

KeyError(path) == [status |-> "KeyError", key |-> path]

\* paths below a common prefix
Under(prefix, keys) == [i \in DOMAIN keys |-> prefix \o <<keys[i]>>]

\* the first key missing from an entry of a list, <<>> when none is;
\* Needs(entry) lists the keys the loop body reads from the entry, in order
FirstMissingInList(list, Needs(_)) ==
  LET Miss(i) == FirstMissing(list[i], Under(<<>>, Needs(list[i])))
      bad == {i \in DOMAIN list : Miss(i) # <<>>}
  IN  IF bad = {} THEN <<>>
      ELSE Miss(CHOOSE i \in bad : \A j \in bad : i <= j)

(***************************************************************************)
(* generate_docker_compose                                                 *)
(***************************************************************************)
HTTP_DEFAULT == 80

HTTPS_DEFAULT == 443

MYSQL_DEFAULT == 3306

PortsPath == <<"infrastructure", "ports">>

\* variant: the alternate wins whenever it is present
EffectivePortCascade(ports, key, alt, default) == Get(ports, alt, ports[key])

\* ports.get(alt, ports[key]) if ports.get(key) == default else ports[key]
EffectivePort(ports, key, alt, default) ==
  IF ports[key] = default THEN Get(ports, alt, ports[key]) ELSE ports[key]

\* services_config.get(name, {}).get('enabled', default)
ServiceEnabled(services, name, default) ==
  Get(Get(services, name, EmptyDict), "enabled", default)

\* keys read up to the end of the db service block, in the order read
ComposeRequired ==
  <<<<"database">>, <<"wordpress">>, <<"infrastructure">>, <<"ssl">>,
    <<"services">>, PortsPath>>
  \o Under(PortsPath, <<"http", "https", "mysql">>)
  \o <<<<"wordpress", "version">>, <<"php", "version">>,
       <<"database", "wordpress_user", "username">>, WpUserPasswordPath,
       <<"database", "name">>, <<"wordpress", "config", "debug">>,
       <<"ssl", "enabled">>, <<"networking", "custom_domain">>>>
  \o Under(<<"wordpress", "config">>,
           <<"debug_log", "debug_display", "script_debug", "wp_memory_limit",
             "fs_method", "force_ssl_admin">>)
  \o Under(SecurityPath, salt_keys)
  \o <<<<"plugins", "webp_migrator", "dev_mode">>,
       <<"plugins", "webp_migrator", "log_level">>,
       <<"networking", "container_network">>, <<"database", "version">>,
       RootPasswordPath, <<"database", "charset">>, <<"database", "collation">>,
       <<"database", "performance", "max_allowed_packet">>,
       <<"database", "performance", "innodb_buffer_pool_size">>>>

\* keys read by the phpmyadmin service block
PhpMyAdminRequired ==
  <<PortsPath \o <<"phpmyadmin">>, <<"database", "root_user", "username">>,
    <<"services", "phpmyadmin", "upload_limit">>>>

\* keys read by the redis service block
RedisRequired ==
  <<<<"services", "redis", "version">>, PortsPath \o <<"redis">>,
    <<"services", "redis", "max_memory">>>>

\* keys read by the networks section
NetworksRequired == <<<<"networking", "network_driver">>>>

generate_docker_compose(tree) ==
  LET m1 == FirstMissing(tree, ComposeRequired)
  IN  IF m1 # <<>> THEN KeyError(m1)
      ELSE
        LET ports == GetPath(tree, PortsPath)
            pma   == ServiceEnabled(tree.services, "phpmyadmin", TRUE)
            redis == ServiceEnabled(tree.services, "redis", FALSE)
            m2    == FirstMissing(tree,
                       (IF pma THEN PhpMyAdminRequired ELSE <<>>)
                       \o (IF redis THEN RedisRequired ELSE <<>>)
                       \o NetworksRequired)
        IN  IF m2 # <<>> THEN KeyError(m2)
            ELSE
              [status |-> "ok",
               http_port |-> EffectivePort(ports, "http", "alt_http", HTTP_DEFAULT),
               https_port |-> EffectivePort(ports, "https", "alt_https", HTTPS_DEFAULT),
               mysql_port |-> EffectivePort(ports, "mysql", "alt_mysql", MYSQL_DEFAULT),
               db_name |-> tree.database.name,
               db_user_password |-> GetPath(tree, WpUserPasswordPath),
               root_password |-> GetPath(tree, RootPasswordPath),
               salts |-> [k \in Range(salt_keys) |-> tree.wordpress.security[k]],
               services |-> <<"wordpress", "db">>
                            \o (IF pma THEN <<"phpmyadmin">> ELSE <<>>)
                            \o (IF redis THEN <<"redis">> ELSE <<>>),
               volumes |-> <<"wordpress_data", "db_data">>
                           \o (IF redis THEN <<"redis_data">> ELSE <<>>)]

(***************************************************************************)
(* generate_env_file                                                       *)
(***************************************************************************)
EnvRequired ==
  <<<<"database">>, <<"wordpress">>, <<"infrastructure">>, <<"ssl">>, <<"php">>,
    <<"infrastructure", "container_engine">>, <<"infrastructure", "install_path">>,
    <<"wordpress", "version">>, <<"php", "version">>,
    <<"networking", "custom_domain">>, <<"ssl", "enabled">>,
    <<"database", "name">>, <<"database", "wordpress_user", "username">>,
    WpUserPasswordPath, RootPasswordPath>>
  \o Under(PortsPath, <<"http", "https", "mysql", "phpmyadmin">>)
  \o Under(<<"wordpress", "config">>,
           <<"debug", "debug_log", "debug_display", "script_debug">>)
  \o <<<<"plugins", "webp_migrator", "dev_mode">>,
       <<"plugins", "webp_migrator", "log_level">>,
       <<"wordpress", "config", "wp_memory_limit">>>>
  \o Under(<<"php", "settings">>,
           <<"memory_limit", "max_execution_time", "upload_max_filesize",
             "post_max_size">>)
  \o <<<<"webserver", "type">>>>

generate_env_file(tree) ==
  LET m == FirstMissing(tree, EnvRequired)
  IN  IF m # <<>> THEN KeyError(m)
      ELSE [status |-> "ok",
            db_name |-> tree.database.name,
            db_user_password |-> GetPath(tree, WpUserPasswordPath),
            root_password |-> GetPath(tree, RootPasswordPath),
            http_port |-> GetPath(tree, PortsPath).http,
            https_port |-> GetPath(tree, PortsPath).https,
            mysql_port |-> GetPath(tree, PortsPath).mysql]

(***************************************************************************)
(* generate_mysql_init_sql                                                 *)
(***************************************************************************)
SqlRequired ==
  <<<<"database">>, <<"database", "name">>, <<"database", "charset">>,
    <<"database", "collation">>, <<"database", "test_user", "username">>,
    <<"database", "test_user", "password">>>>
  \o Under(<<"database", "performance">>,
           <<"max_allowed_packet", "innodb_buffer_pool_size", "max_connections",
             "query_cache_size">>)

generate_mysql_init_sql(tree) ==
  LET m == FirstMissing(tree, SqlRequired)
  IN  IF m # <<>> THEN KeyError(m)
      ELSE [status |-> "ok",
            db_name |-> tree.database.name,
            test_user_password |-> tree.database.test_user.password]

(***************************************************************************)
(* generate_install_script                                                 *)
(***************************************************************************)
\* keys read by the first part of the template (header to create_additional_users)
ScriptRequired ==
  <<<<"wordpress">>, <<"automation">>, <<"wordpress", "site", "title">>,
    <<"wordpress", "admin_user", "username">>, AdminPasswordPath,
    <<"wordpress", "admin_user", "email">>, <<"wordpress", "site", "url">>,
    <<"wordpress", "site", "language">>, <<"automation", "max_wait_time">>,
    <<"database", "wordpress_user", "username">>, WpUserPasswordPath,
    <<"database", "name">>>>

\* keys read by the main function of the template
MainRequired ==
  Under(<<"automation">>,
        <<"wait_for_services", "auto_install_wordpress", "auto_activate_plugins",
          "auto_create_content">>)

UserNeeds(user) == <<"username", "email", "password", "role">>

PluginNeeds(plugin) ==
  IF "source" \notin DOMAIN plugin THEN <<"source">>
  ELSE CASE plugin.source = "local" -> <<"source", "slug">>
         [] plugin.source = "wordpress_org" -> <<"source", "slug">>
         [] plugin.source = "zip_url" -> <<"source", "slug", "url">>
         [] OTHER -> <<"source">>

PostNeeds(post) == <<"type", "title", "content", "status">>

\* variant: the flag is appended whatever the entry says
ActivateFlagAlways(plugin) == "--activate"

\* '--activate' if plugin.get('activate', False) else ''
ActivateFlag(plugin) == IF Get(plugin, "activate", FALSE) THEN "--activate" ELSE ""

\* the text one plugin entry adds to install_plugins, as a sequence of blocks
PluginBlock(plugin) ==
  CASE plugin.source = "local" ->
         <<[log_info |-> <<"Activating plugin:", plugin.slug>>,
            command |-> <<"wp", "plugin", "activate", plugin.slug>>]>>
    [] plugin.source = "wordpress_org" ->
         <<[log_info |-> <<"Installing plugin from WordPress.org:", plugin.slug>>,
            command |-> <<"wp", "plugin", "install", plugin.slug,
                          ActivateFlag(plugin)>>]>>
    [] plugin.source = "zip_url" ->
         <<[log_info |-> <<"Installing plugin from URL:", plugin.slug>>,
            command |-> <<"wp", "plugin", "install", plugin.url,
                          ActivateFlag(plugin)>>]>>
    [] OTHER -> <<>>

RECURSIVE PluginBlocks(_)
\* the loop over plugins.install
PluginBlocks(list) ==
  IF list = <<>> THEN <<>> ELSE PluginBlock(Head(list)) \o PluginBlocks(Tail(list))

UserBlock(user) ==
  [username |-> user.username, email |-> user.email, user_pass |-> user.password,
   role |-> user.role, first_name |-> Get(user, "first_name", ""),
   last_name |-> Get(user, "last_name", "")]

PostBlock(post) ==
  [post_type |-> post.type, post_title |-> post.title,
   post_content |-> post.content, post_status |-> post.status]

\* variant: the second branch tests a token that is never given
PostInstallBlockFlushOnly(action) ==
  CASE action = "flush_rewrite_rules" ->
         <<"docker-compose exec -T wpcli wp rewrite flush">>
    [] OTHER -> <<>>

\* the text one post_install token adds to main, as a sequence of lines
PostInstallBlock(action) ==
  CASE action = "flush_rewrite_rules" ->
         <<"docker-compose exec -T wpcli wp rewrite flush">>
    [] action = "set_permissions" ->
         <<"docker-compose exec wordpress chown -R www-data:www-data /var/www/html">>
    [] OTHER -> <<>>

RECURSIVE PostInstallBlocks(_)
\* the loop over automation.post_install
PostInstallBlocks(list) ==
  IF list = <<>> THEN <<>>
  ELSE PostInstallBlock(Head(list)) \o PostInstallBlocks(Tail(list))

\* variant: a disabled step leaves no line
StepLineOmit(condition, call, comment) == IF condition THEN <<call>> ELSE <<>>

\* one line of main: the call when the condition holds, the comment otherwise
StepLine(condition, call, comment) ==
  IF condition THEN <<call>> ELSE <<comment>>

\* the truth value of wp_config.get('additional_users')
HasAdditionalUsers(wp) ==
  "additional_users" \in DOMAIN wp /\ wp.additional_users # <<>>

\* the five step lines of main, in template order
MainSteps(tree) ==
  StepLine(tree.automation.wait_for_services,
           "wait_for_database", "# Skipping database wait")
  \o StepLine(tree.automation.auto_install_wordpress,
              "install_wordpress", "# Skipping WordPress installation")
  \o StepLine(HasAdditionalUsers(tree.wordpress),
              "create_additional_users", "# No additional users to create")
  \o StepLine(tree.automation.auto_activate_plugins,
              "install_plugins", "# Skipping plugin installation")
  \o StepLine(tree.automation.auto_create_content,
              "create_sample_content", "# Skipping sample content creation")

generate_install_script(tree) ==
  LET m1 == FirstMissing(tree, ScriptRequired)
  IN  IF m1 # <<>> THEN KeyError(m1)
      ELSE
        LET users == Get(tree.wordpress, "additional_users", <<>>)
            m2 == FirstMissingInList(users, UserNeeds)
        IN  IF m2 # <<>> THEN KeyError(m2)
            ELSE IF ~HasPath(tree, <<"plugins", "install">>)
              THEN KeyError(<<"plugins", "install">>)
            ELSE
              LET m3 == FirstMissingInList(tree.plugins.install, PluginNeeds)
              IN  IF m3 # <<>> THEN KeyError(m3)
                  ELSE IF ~HasPath(tree, <<"wordpress", "content">>)
                    THEN KeyError(<<"wordpress", "content">>)
                  ELSE
                    LET posts == Get(tree.wordpress.content, "sample_posts", <<>>)
                        m4 == FirstMissingInList(posts, PostNeeds)
                        m5 == FirstMissing(tree, MainRequired)
                    IN  IF m4 # <<>> THEN KeyError(m4)
                        ELSE IF m5 # <<>> THEN KeyError(m5)
                        ELSE
                          [status |-> "ok",
                           admin_password |-> GetPath(tree, AdminPasswordPath),
                           db_user_password |-> GetPath(tree, WpUserPasswordPath),
                           db_name |-> tree.database.name,
                           users |-> [i \in DOMAIN users |-> UserBlock(users[i])],
                           plugins |-> PluginBlocks(tree.plugins.install),
                           posts |-> [i \in DOMAIN posts |-> PostBlock(posts[i])],
                           main |-> MainSteps(tree),
                           post_install |->
                             PostInstallBlocks(
                               Get(tree.automation, "post_install", <<>>))]

(***************************************************************************)
(* generate_all_configs and main                                           *)
(***************************************************************************)
ComposeFile == "docker-compose.yml"

EnvFile == ".env"

SqlFile == "mysql-init/01-webp-migrator-init.sql"

ScriptFile == "install-automated.sh"

\* the keys of the dict configs, in insertion order
FileOrder == <<ComposeFile, EnvFile, SqlFile, ScriptFile>>

Files == Range(FileOrder)

Statement(op, file) == [op |-> op, file |-> file]

NoStatement == Statement("none", "")

\* variant: each artifact is written as soon as it is rendered
ProgramWriteAsRendered ==
  <<Statement("substitute", ""), Statement("mkdir", ""),
    Statement("render", ComposeFile), Statement("write", ComposeFile),
    Statement("render", EnvFile), Statement("write", EnvFile),
    Statement("render", SqlFile), Statement("write", SqlFile),
    Statement("render", ScriptFile), Statement("write", ScriptFile)>>

\* variant: the manifest is rendered before the secrets are substituted
ProgramSubstituteLate ==
  <<Statement("mkdir", ""), Statement("render", ComposeFile),
    Statement("substitute", ""),
    Statement("render", EnvFile), Statement("render", SqlFile),
    Statement("render", ScriptFile),
    Statement("write", ComposeFile), Statement("write", EnvFile),
    Statement("write", SqlFile), Statement("write", ScriptFile)>>

\* the statements of generate_all_configs, in program order: substitution,
\* mkdir, the four generator calls of the dict display, the write loop
Program ==
  <<Statement("substitute", ""), Statement("mkdir", "")>>
  \o [i \in DOMAIN FileOrder |-> Statement("render", FileOrder[i])]
  \o [i \in DOMAIN FileOrder |-> Statement("write", FileOrder[i])]

Current == IF step \in DOMAIN Program THEN Program[step] ELSE NoStatement

\* a step of generate_all_configs completes normally
Advance == /\ step' = step + 1
           /\ UNCHANGED <<pc, raisedIn>>

\* a step of generate_all_configs raises
Raise == /\ pc' = "raised"
         /\ raisedIn' = Current
         /\ UNCHANGED step

\* self._substitute_auto_values() in generate_all_configs
Substitute ==
  /\ pc = "run"
  /\ Current.op = "substitute"
  /\ \E seed \in Seeds :
       LET r == _substitute_auto_values(config, seed)
       IN  /\ config' = r.tree
           /\ IF r.error = <<>>
                THEN calls' = calls + 1 /\ Advance
                ELSE calls' = calls /\ Raise
  /\ UNCHANGED <<configs, disk>>

\* self.output_dir.mkdir(exist_ok=True)
Mkdir ==
  /\ pc = "run"
  /\ Current.op = "mkdir"
  /\ disk' = [disk EXCEPT !.dir = TRUE]
  /\ Advance
  /\ UNCHANGED <<config, calls, configs>>

\* one value of the dict display: the call of a generator
Render(file, result) ==
  /\ pc = "run"
  /\ Current = Statement("render", file)
  /\ configs' = [configs EXCEPT ![file] = result]
  /\ IF result.status = "ok" THEN Advance ELSE Raise
  /\ UNCHANGED <<config, calls, disk>>

RenderCompose == Render(ComposeFile, generate_docker_compose(config))

RenderEnv == Render(EnvFile, generate_env_file(config))

RenderSql == Render(SqlFile, generate_mysql_init_sql(config))

RenderScript == Render(ScriptFile, generate_install_script(config))

\* the mode os.chmod gives the file, "default" when it is not called
FileMode(file) == IF file = ScriptFile THEN "0o755" ELSE "default"

\* one iteration of the write loop
WriteFile ==
  /\ pc = "run"
  /\ Current.op = "write"
  /\ disk' = [disk EXCEPT !.files[Current.file] =
                [src |-> "run", content |-> configs[Current.file],
                 mode |-> FileMode(Current.file)]]
  /\ Advance
  /\ UNCHANGED <<config, calls, configs>>

\* generate_all_configs returns and main ends with exit status 0
Complete ==
  /\ pc = "run"
  /\ step > Len(Program)
  /\ pc' = "exit0"
  /\ UNCHANGED <<config, step, calls, configs, disk, raisedIn>>

\* variant: the except clause reports the error and returns normally
MainExceptSwallow ==
  /\ pc = "raised"
  /\ pc' = "exit0"
  /\ UNCHANGED <<config, step, calls, configs, disk, raisedIn>>

\* the except clause of main: the error is printed, sys.exit(1)
MainExcept ==
  /\ pc = "raised"
  /\ pc' = "exit1"
  /\ UNCHANGED <<config, step, calls, configs, disk, raisedIn>>

\* a direct call of _substitute_auto_values on a generator object
CallSubstitute ==
  /\ pc = "api"
  /\ calls < MaxCalls
  /\ \E seed \in Seeds :
       LET r == _substitute_auto_values(config, seed)
       IN  /\ config' = r.tree
           /\ IF r.error = <<>>
                THEN /\ calls' = calls + 1
                     /\ UNCHANGED <<pc, raisedIn>>
                ELSE /\ calls' = calls
                     /\ pc' = "raised"
                     /\ raisedIn' = Statement("substitute", "")
  /\ UNCHANGED <<step, configs, disk>>

(***************************************************************************)
(* Input trees                                                             *)
(***************************************************************************)
RemoveKey(d, key) == [k \in DOMAIN d \ {key} |-> d[k]]

AutoPassword == <<"a", "u", "t", "o">>

MixedCaseAutoPassword == <<"m", "y", "A", "u", "T", "O", "1">>

PasswordInputs == {AutoPassword, MixedCaseAutoPassword, GoodPassword, EmptyString}

\* the three password fields set to p[1], p[2], p[3]
WithPasswords(tree, p) ==
  SetPath(SetPath(SetPath(tree, RootPasswordPath, p[1]),
                  WpUserPasswordPath, p[2]),
          AdminPasswordPath, p[3])

PasswordTriples == PasswordInputs \X PasswordInputs \X PasswordInputs

AllEmptySecurity == [k \in Range(salt_keys) |-> EmptyString]

\* the security section with one salt short, empty or absent
OneSaltSecurity ==
  {[BaseSecurity EXCEPT ![k] = v] :
     k \in Range(salt_keys), v \in {ShortSalt, EmptyString}}
  \cup {RemoveKey(BaseSecurity, k) : k \in Range(salt_keys)}

SubstituteTrees ==
  {WithPasswords(SetPath(BaseTree, SecurityPath, sec), p) :
     sec \in {BaseSecurity, AllEmptySecurity} \cup OneSaltSecurity,
     p \in PasswordTriples}
  \cup {RemovePath(BaseTree, password_paths[i]) : i \in DOMAIN password_paths}
  \cup {RemovePath(BaseTree, SecurityPath)}

SecretTrees ==
  {WithPasswords(SetPath(BaseTree, SecurityPath, sec), p) :
     sec \in {BaseSecurity, AllEmptySecurity,
              RemoveKey(BaseSecurity, "auth_key")},
     p \in PasswordTriples}

\* a port and its alternate: configured value in vals, alternate absent or alt
PortChoices(ports, key, vals, altkey, alt) ==
  {[k \in DOMAIN ports \cup {key} |-> IF k = key THEN v ELSE ports[k]] :
     v \in vals}
  \cup {[k \in DOMAIN ports \cup {key, altkey} |->
           IF k = key THEN v ELSE IF k = altkey THEN alt ELSE ports[k]] :
        v \in vals}

PortInputs ==
  UNION {UNION {PortChoices(p2, "mysql", {MYSQL_DEFAULT, 3307}, "alt_mysql", 3308) :
                p2 \in PortChoices(p1, "https", {HTTPS_DEFAULT, 8443},
                                   "alt_https", 8444)} :
         p1 \in PortChoices(GetPath(BaseTree, PortsPath), "http",
                            {HTTP_DEFAULT, 8080}, "alt_http", 8081)}

PhpMyAdminInputs ==
  {[enabled |-> TRUE, upload_limit |-> "128M"],
   [enabled |-> FALSE, upload_limit |-> "128M"],
   [upload_limit |-> "128M"]}

RedisInputs ==
  {[enabled |-> TRUE, version |-> "7", max_memory |-> "64mb"],
   [enabled |-> FALSE, version |-> "7", max_memory |-> "64mb"]}

\* the services section: each optional service present (in a variant) or absent
ServicesInputs ==
  {[phpmyadmin |-> a, redis |-> b] : a \in PhpMyAdminInputs, b \in RedisInputs}
  \cup {[phpmyadmin |-> a] : a \in PhpMyAdminInputs}
  \cup {[redis |-> b] : b \in RedisInputs}
  \cup {EmptyDict}

ComposeTrees ==
  {SetPath(SetPath(BaseTree, PortsPath, p), <<"services">>, sv) :
     p \in PortInputs, sv \in ServicesInputs}

PluginInputs ==
  {[source |-> "local", slug |-> "foo"],
   [source |-> "wordpress_org", slug |-> "bar", activate |-> TRUE],
   [source |-> "wordpress_org", slug |-> "bar", activate |-> FALSE],
   [source |-> "wordpress_org", slug |-> "qux"],
   [source |-> "zip_url", slug |-> "baz", url |-> "https://x/y.zip",
    activate |-> TRUE],
   [source |-> "zip_url", slug |-> "baz", url |-> "https://x/y.zip",
    activate |-> FALSE],
   [source |-> "github", slug |-> "quux"]}

\* the sequences over S of length at most n
SeqUpTo(S, n) == UNION {[1..k -> S] : k \in 0..n}

PluginTrees ==
  {SetPath(BaseTree, <<"plugins", "install">>, l) :
     l \in SeqUpTo(PluginInputs, MaxPlugins)}

ActionInputs == {"flush_rewrite_rules", "set_permissions", "clear_cache"}

ActionTrees ==
  {SetPath(BaseTree, <<"automation", "post_install">>, l) :
     l \in SeqUpTo(ActionInputs, MaxActions)}
  \cup {RemovePath(BaseTree, <<"automation", "post_install">>)}

\* the automation toggles set to t[1..4]
WithToggles(tree, t) ==
  [tree EXCEPT !.automation.wait_for_services = t[1],
               !.automation.auto_install_wordpress = t[2],
               !.automation.auto_activate_plugins = t[3],
               !.automation.auto_create_content = t[4]]

ToggleTrees ==
  LET toggled == {WithToggles(BaseTree, t) :
                    t \in BOOLEAN \X BOOLEAN \X BOOLEAN \X BOOLEAN}
  IN  toggled
      \cup {SetPath(t, <<"wordpress", "additional_users">>, <<>>) : t \in toggled}
      \cup {RemovePath(t, <<"wordpress", "additional_users">>) : t \in toggled}

\* every key some generator requires
RequiredPaths ==
  Range(ComposeRequired) \cup Range(PhpMyAdminRequired) \cup Range(NetworksRequired)
  \cup Range(EnvRequired) \cup Range(SqlRequired) \cup Range(ScriptRequired)
  \cup Range(MainRequired)
  \cup {<<"plugins", "install">>, <<"wordpress", "content">>}

\* a complete tree with one required key removed
MissingKeyTrees == {RemovePath(BaseTree, p) : p \in RequiredPaths}

InputTrees ==
  ComposeTrees \cup PluginTrees \cup ActionTrees \cup ToggleTrees
  \cup MissingKeyTrees \cup SecretTrees

\* an artifact left in the output directory by an earlier run
PreviousFile == [src |-> "previous", content |-> NotRendered, mode |-> "default"]

AbsentFile == [src |-> "absent", content |-> NotRendered, mode |-> "default"]

DiskInputs ==
  {[dir |-> FALSE, files |-> [f \in Files |-> AbsentFile]],
   [dir |-> TRUE, files |-> [f \in Files |-> PreviousFile]]}

(***************************************************************************)
(* Specifications                                                          *)
(***************************************************************************)
\* main has constructed the generator: the tree is loaded, nothing is rendered
Init ==
  /\ config \in InputTrees
  /\ pc = "run"
  /\ step = 1
  /\ calls = 0
  /\ configs = [f \in Files |-> NotRendered]
  /\ disk \in DiskInputs
  /\ raisedIn = NoStatement

Next ==
  \/ Substitute
  \/ Mkdir
  \/ RenderCompose
  \/ RenderEnv
  \/ RenderSql
  \/ RenderScript
  \/ WriteFile
  \/ Complete
  \/ MainExcept

Spec == Init /\ [][Next]_vars

\* a generator object on which _substitute_auto_values is called directly
InitSubst ==
  /\ config \in SubstituteTrees
  /\ pc = "api"
  /\ step = 1
  /\ calls = 0
  /\ configs = [f \in Files |-> NotRendered]
  /\ disk \in {d \in DiskInputs : ~d.dir}
  /\ raisedIn = NoStatement

NextSubst == CallSubstitute

SpecSubst == InitSubst /\ [][NextSubst]_vars

(***************************************************************************)
(* Properties                                                              *)
(***************************************************************************)
Manifest == configs[ComposeFile]

Script == configs[ScriptFile]

\* C1: every key the manifest needs is present, the services entries aside
C1_OtherwiseComplete ==
  \A p \in (Range(ComposeRequired) \cup Range(NetworksRequired)
            \cup {PortsPath \o <<"phpmyadmin">>, PortsPath \o <<"redis">>,
                  <<"database", "root_user", "username">>}) :
     HasPath(config, p)

\* C1: for a tree that is otherwise complete, generate_docker_compose on a
\* tree without a phpmyadmin entry returns a manifest with the phpmyadmin
\* block, and on a tree without a redis entry a manifest without a redis
\* block; the absence of a section is never an error.
C1_AbsentSectionDefaults ==
  (C1_OtherwiseComplete /\ Manifest # NotRendered) =>
    /\ "phpmyadmin" \notin DOMAIN config.services =>
         /\ Manifest.status = "ok"
         /\ "phpmyadmin" \in Range(Manifest.services)
    /\ ("redis" \notin DOMAIN config.services
        /\ "phpmyadmin" \in DOMAIN config.services) =>
         /\ Manifest.status = "ok"
         /\ "redis" \notin Range(Manifest.services)

\* a call of _substitute_auto_values completes in this step
SubstitutionCompletes == calls' = calls + 1

\* C2: for each password field: when the value before substitution contains
\* "auto" (case-insensitively) the value after it has exactly 16 characters
\* of the password alphabet and does not contain "auto"; otherwise the value
\* after equals the value before.
C2_PasswordMarkerRule ==
  [][SubstitutionCompletes =>
       \A i \in DOMAIN password_paths :
         LET before == GetPath(config, password_paths[i])
             after  == GetPath(config', password_paths[i])
         IN  IF HasAuto(before)
               THEN /\ Len(after) = PasswordLength
                    /\ Range(after) \subseteq Range(PasswordAlphabet)
                    /\ ~HasAuto(after)
               ELSE after = before]_vars

\* C3: after _substitute_auto_values has completed, each of the 8 salt
\* fields is exactly 64 characters of the salt alphabet and each of the 3
\* password fields is non-empty.
C3_SecretsWellFormed ==
  calls >= 1 =>
    /\ \A i \in DOMAIN salt_keys :
         /\ salt_keys[i] \in DOMAIN config.wordpress.security
         /\ Len(config.wordpress.security[salt_keys[i]]) = SaltLength
         /\ Range(config.wordpress.security[salt_keys[i]])
              \subseteq Range(SaltAlphabet)
    /\ \A i \in DOMAIN password_paths :
         GetPath(config, password_paths[i]) # EmptyString

\* the 8 salts and 3 passwords of a tree
Secrets(tree) ==
  <<tree.wordpress.security,
    [i \in DOMAIN password_paths |-> GetPath(tree, password_paths[i])]>>

\* C4: a second run of _substitute_auto_values on the tree a first run
\* produced leaves all salt and password fields as the first run left them.
C4_SubstitutionIdempotent ==
  [][(calls >= 1 /\ SubstitutionCompletes) =>
       Secrets(config') = Secrets(config)]_vars

\* the port the override rule names for a configured port and its alternate
C5_Expected(ports, key, alt, default) ==
  IF ports[key] = default /\ alt \in DOMAIN ports THEN ports[alt] ELSE ports[key]

\* C5: the external HTTP, HTTPS and database ports of the manifest are the
\* alternate when the configured port is the service default (80, 443, 3306)
\* and an alternate is present, and the configured port in every other case.
C5_PortOverride ==
  Manifest.status = "ok" =>
    LET ports == GetPath(config, PortsPath)
    IN  /\ Manifest.http_port = C5_Expected(ports, "http", "alt_http", 80)
        /\ Manifest.https_port = C5_Expected(ports, "https", "alt_https", 443)
        /\ Manifest.mysql_port = C5_Expected(ports, "mysql", "alt_mysql", 3306)

\* a manifest where the override applied to HTTP and not to HTTPS (a
\* non-default port with an alternate) nor to the database port (the default
\* without an alternate)
C5_Witness ==
  /\ Manifest.status = "ok"
  /\ LET ports == GetPath(config, PortsPath)
     IN  /\ ports.http = 80 /\ "alt_http" \in DOMAIN ports
         /\ ports.https = 8443 /\ "alt_https" \in DOMAIN ports
         /\ ports.mysql = 3306 /\ "alt_mysql" \notin DOMAIN ports
  /\ Manifest.http_port = 8081
  /\ Manifest.https_port = 8443
  /\ Manifest.mysql_port = 3306

C6_Variants == {"local", "wordpress_org", "zip_url"}

\* the command the claim names for one entry
C6_BlockMatches(plugin, block) ==
  LET wantsFlag == "activate" \in DOMAIN plugin /\ plugin.activate
      flagOk == /\ Len(block.command) = 5
                /\ block.command[5] = (IF wantsFlag THEN "--activate" ELSE "")
  IN  CASE plugin.source = "local" ->
             block.command = <<"wp", "plugin", "activate", plugin.slug>>
        [] plugin.source = "wordpress_org" ->
             /\ SubSeq(block.command, 1, 4)
                  = <<"wp", "plugin", "install", plugin.slug>>
             /\ flagOk
        [] plugin.source = "zip_url" ->
             /\ SubSeq(block.command, 1, 4)
                  = <<"wp", "plugin", "install", plugin.url>>
             /\ flagOk

\* C6: for a plugin install list of local, wordpress_org and zip_url entries
\* the script has exactly one command block per entry, in list order: a
\* local entry gives only "plugin activate <slug>", a wordpress_org entry
\* "plugin install <slug>", a zip_url entry "plugin install <url>", the last
\* two with --activate iff the entry's activate is true.
C6_PluginDispatch ==
  (Script.status = "ok"
   /\ \A i \in DOMAIN config.plugins.install :
        config.plugins.install[i].source \in C6_Variants) =>
    /\ Len(Script.plugins) = Len(config.plugins.install)
    /\ \A i \in DOMAIN config.plugins.install :
         C6_BlockMatches(config.plugins.install[i], Script.plugins[i])

\* a script rendered from a zip_url entry without activation followed by a
\* local entry
C6_Witness ==
  /\ Script.status = "ok"
  /\ Len(config.plugins.install) = 2
  /\ config.plugins.install[1].source = "zip_url"
  /\ ~config.plugins.install[1].activate
  /\ config.plugins.install[2].source = "local"
  /\ Script.plugins[1].command
       = <<"wp", "plugin", "install", "https://x/y.zip", "">>
  /\ Script.plugins[2].command = <<"wp", "plugin", "activate", "foo">>

DatabaseNamePath == <<"database", "name">>

\* C7: when the database name is absent from the tree, no artifact is
\* rendered successfully, no file is written, the run never reaches the
\* first statement after the manifest generator, and it never ends with
\* exit status 0; once the exception has reached main the run ends with
\* exit status 1.
C7_MissingNameFails ==
  ~HasPath(config, DatabaseNamePath) =>
    /\ \A f \in Files :
         /\ configs[f].status # "ok"
         /\ disk.files[f].src # "run"
    /\ pc # "exit0"
    /\ pc = "run" => step <= 3
    /\ (pc = "exit1" => raisedIn.op \in {"substitute", "render"})

\* the run on a tree without the database name has ended in failure, the
\* manifest generator having raised the KeyError on that key
C7_Witness ==
  /\ "database" \in DOMAIN config
  /\ ~HasPath(config, DatabaseNamePath)
  /\ pc = "exit1"
  /\ raisedIn = Statement("render", ComposeFile)
  /\ Manifest = KeyError(DatabaseNamePath)

\* the position of a file in the order of the generators
FileIndex(file) == CHOOSE i \in DOMAIN FileOrder : FileOrder[i] = file

\* C8 as stated: when a generator fails, the files of the artifacts whose
\* generators completed before it have been written and are on disk when
\* the run has ended in failure.
C8_PartialWritesRemain ==
  (pc = "exit1" /\ raisedIn.op = "render") =>
    \A i \in DOMAIN FileOrder :
      i < FileIndex(raisedIn.file) => disk.files[FileOrder[i]].src = "run"

\* C8 amended: when a generator fails, the run has written no file: every
\* file of the output directory is as it was before the run, also those of
\* the artifacts whose generators completed before the failing one.
C8_NoWriteOnGeneratorFailure ==
  (pc \in {"raised", "exit1"} /\ raisedIn.op = "render") =>
    \A f \in Files : disk.files[f] \in {AbsentFile, PreviousFile}

\* the install script generator failed after the three others had rendered,
\* and the run has ended in failure with nothing written
C8_Witness ==
  /\ pc = "exit1"
  /\ raisedIn = Statement("render", ScriptFile)
  /\ \A f \in Files \ {ScriptFile} : configs[f].status = "ok"
  /\ \A f \in Files : disk.files[f].src # "run"

\* the secrets an artifact carries are those of the tree
C9_CarriesTreeSecrets(f) ==
  LET a == configs[f]
  IN  /\ f \in {ComposeFile, EnvFile} =>
           /\ a.db_user_password = GetPath(config, WpUserPasswordPath)
           /\ a.root_password = GetPath(config, RootPasswordPath)
      /\ f = ComposeFile =>
           \A k \in Range(salt_keys) : a.salts[k] = config.wordpress.security[k]
      /\ f = ScriptFile =>
           /\ a.db_user_password = GetPath(config, WpUserPasswordPath)
           /\ a.admin_password = GetPath(config, AdminPasswordPath)

C9_RenderedAfterSubstitution ==
  \A f \in Files :
    /\ configs[f] # NotRendered => calls >= 1
    /\ configs[f].status = "ok" => C9_CarriesTreeSecrets(f)
    /\ disk.files[f].src = "run" =>
         /\ disk.files[f].content = configs[f]
         /\ configs[f].status = "ok"

\* C9: in every run of generate_all_configs the substitution has completed
\* before any generator has rendered, only the substitution step changes the
\* tree (so the tree after the four renders is the tree after substitution),
\* and every artifact and every written file carries the secrets of the tree.
C9_SubstituteThenRender ==
  /\ []C9_RenderedAfterSubstitution
  /\ [][config' # config => (pc = "run" /\ Current.op = "substitute")]_vars

\* a successful run whose secrets were generated: the written manifest and
\* script carry the same generated password, the manifest a generated salt
C9_Witness ==
  /\ pc = "exit0"
  /\ \A f \in Files : disk.files[f].src = "run"
  /\ Len(Manifest.db_user_password) = PasswordLength
  /\ disk.files[ScriptFile].content.db_user_password = Manifest.db_user_password
  /\ disk.files[EnvFile].content.db_user_password = Manifest.db_user_password
  /\ Manifest.salts["auth_key"] # GoodSalt
  /\ Len(Manifest.salts["auth_key"]) = SaltLength

C10_Calls ==
  <<"wait_for_database", "install_wordpress", "create_additional_users",
    "install_plugins", "create_sample_content">>

C10_Placeholders ==
  <<"# Skipping database wait", "# Skipping WordPress installation",
    "# No additional users to create", "# Skipping plugin installation",
    "# Skipping sample content creation">>

\* the five automation conditions of a tree
C10_Conditions(tree) ==
  <<tree.automation.wait_for_services, tree.automation.auto_install_wordpress,
    "additional_users" \in DOMAIN tree.wordpress
      /\ Len(tree.wordpress.additional_users) > 0,
    tree.automation.auto_activate_plugins, tree.automation.auto_create_content>>

\* C10: for every combination of the five automation conditions the main
\* function has exactly five step lines, line i being the call of the i-th
\* section function iff condition i is true and its comment placeholder
\* otherwise.
C10_FiveStepLines ==
  Script.status = "ok" =>
    /\ Len(Script.main) = 5
    /\ \A i \in 1..5 :
         Script.main[i] = (IF C10_Conditions(config)[i]
                             THEN C10_Calls[i] ELSE C10_Placeholders[i])

\* a script rendered with the first, third and fifth step disabled
C10_Witness ==
  /\ Script.status = "ok"
  /\ C10_Conditions(config) = <<FALSE, TRUE, FALSE, TRUE, FALSE>>
  /\ Script.main = <<"# Skipping database wait", "install_wordpress",
                     "# No additional users to create", "install_plugins",
                     "# Skipping sample content creation">>

C11_Recognized(token) == token \in {"flush_rewrite_rules", "set_permissions"}

\* the one fixed command of a recognized token
C11_Command(token) ==
  IF token = "flush_rewrite_rules"
    THEN "docker-compose exec -T wpcli wp rewrite flush"
    ELSE "docker-compose exec wordpress chown -R www-data:www-data /var/www/html"

\* the post_install list of a tree, empty when the key is absent
C11_Actions(tree) ==
  IF "post_install" \in DOMAIN tree.automation
    THEN tree.automation.post_install ELSE <<>>

\* C11: for every post_install list the post-installation part of the
\* script is the list's recognized tokens (flush_rewrite_rules,
\* set_permissions), kept in list order with duplicates, each mapped to its
\* one fixed command; an unrecognized token adds nothing and does not make
\* the generation fail: a tree that renders with an empty list renders with
\* any list.
C11_PostInstallActions ==
  (Script # NotRendered /\ HasPath(config, <<"automation">>)) =>
    LET kept == SelectSeq(C11_Actions(config), C11_Recognized)
        emptied == SetPath(config, <<"automation", "post_install">>, <<>>)
    IN  /\ Script.status = "ok" =>
             Script.post_install = [i \in DOMAIN kept |-> C11_Command(kept[i])]
        /\ generate_install_script(emptied).status = "ok" =>
             Script.status = "ok"

\* a script rendered from a list with a repeated recognized token around an
\* unrecognized one
C11_Witness ==
  /\ Script.status = "ok"
  /\ HasPath(config, <<"automation", "post_install">>)
  /\ config.automation.post_install
       = <<"set_permissions", "clear_cache", "set_permissions">>
  /\ Script.post_install
       = <<"docker-compose exec wordpress chown -R www-data:www-data /var/www/html",
           "docker-compose exec wordpress chown -R www-data:www-data /var/www/html">>

====
